---------------------------- MODULE Spec2Model ----------------------------
(***************************************************************************)
(* DynamicFont (src/src/resource/font.rs): a glyph cache in front of a     *)
(* shelf-packed font atlas, and the upload of the atlas to a GPU texture.  *)
(*                                                                         *)
(* The shaper (rustybuzz) and the rasterizer (fontdue) are collaborators:  *)
(* the shaped glyph ids of a call are its input, and the rasterizer is a   *)
(* table, fixed when the font is loaded, from glyph index to bitmap size.  *)
(* Pixels, the atlas image and the GPU texture are modelled pixel by       *)
(* pixel on a canvas scaled down from 2096 x 2096.                         *)
(***************************************************************************)
EXTENDS Integers, Sequences, FiniteSets, TLC

\* font.rs:30 sets FONT_ATLAS_SIZE to 2096. The code only compares against
\* it, so the canvas is scaled down to keep the pixel-level state finite.
FONT_ATLAS_SIZE == 2

\* Longest shaped glyph sequence handed to one get_glyphs call.
MaxLen == 2

\* The glyph ids the shaper can return for the loaded font: GlyphInfo
\* holds the id in 32 bits, and the shaper keeps it at most u16::MAX.
GlyphIds == {0, 1, 65535}

\* The bitmap sizes <<width, height>> a glyph of the font can have: empty,
\* one pixel, as tall or as wide as the canvas, as wide as the canvas or
\* wider with no rows, wider or taller than the canvas with one row or one
\* column, and as large as the canvas.
BitmapSizes ==
    {<<0, 0>>, <<1, 1>>, <<1, FONT_ATLAS_SIZE>>, <<FONT_ATLAS_SIZE, 1>>,
     <<FONT_ATLAS_SIZE, 0>>, <<FONT_ATLAS_SIZE + 1, 0>>,
     <<FONT_ATLAS_SIZE + 1, 1>>, <<1, FONT_ATLAS_SIZE + 1>>,
     <<FONT_ATLAS_SIZE, FONT_ATLAS_SIZE>>}

VARIABLES
    font,                       \* rasterizer table: glyph index -> metrics
    size,                       \* DynamicFont::size
    atlas_image,                \* DynamicFont::atlas_image, pixel by pixel
    atlas_texture,              \* content of the GPU texture
    need_upload,                \* DynamicFont::need_upload
    next_glyph_position,        \* DynamicFont::next_glyph_position
    max_height_of_current_row,  \* DynamicFont::max_height_of_current_row
    glyph_cache,                \* DynamicFont::glyph_cache
    panicked,                   \* a put_pixel out of the image has panicked
    op,                         \* the last call made: load, get_glyphs, upload
    glyph_infos,                \* the shaped glyph ids, when it was get_glyphs
    glyphs,                     \* the glyphs it returned, when it was get_glyphs
    gpu_writes,                 \* write_texture commands the last call queued
    missed                      \* a cache miss happened since the last upload

vars == <<font, size, atlas_image, atlas_texture, need_upload,
          next_glyph_position, max_height_of_current_row, glyph_cache,
          panicked, op, glyph_infos, glyphs, gpu_writes, missed>>

-----------------------------------------------------------------------------
(* Data *)

Pixels == (0 .. FONT_ATLAS_SIZE - 1) \X (0 .. FONT_ATLAS_SIZE - 1)

\* image::GrayImage::new: every pixel 0.
BlankImage == [p \in Pixels |-> 0]

\* fontdue::Metrics as far as get_glyphs reads it.
Metrics ==
    {[width |-> d[1], height |-> d[2], xmin |-> 0, ymin |-> 0] : d \in BitmapSizes}

\* A narrowing that takes the id modulo u16::MAX.
AsU16_OffByOne(glyph_id) == glyph_id % 65535

\* info.glyph_id as u16
AsU16(glyph_id) == glyph_id % 65536

GlyphIndices == {AsU16(id) : id \in GlyphIds}

\* The coverage byte i of the bitmap of a glyph: never 0 and different from
\* glyph to glyph and from byte to byte, so that every write can be seen.
Coverage(index, i) == 1 + ((16 * index + i) % 251)

\* font.rasterize_indexed(index, px): (metrics, bitmap). The table is the
\* font at the pixel size of load, 24; the outline scales with px.
Rasterize(index, px) ==
    LET metrics == [width  |-> (font[index].width * px) \div 24,
                    height |-> (font[index].height * px) \div 24,
                    xmin   |-> (font[index].xmin * px) \div 24,
                    ymin   |-> (font[index].ymin * px) \div 24]
    IN  [metrics |-> metrics,
         bitmap  |-> [i \in 0 .. (metrics.width * metrics.height - 1)
                        |-> Coverage(index, i)]]

ShapedTexts == UNION {[1 .. n -> GlyphIds] : n \in 0 .. MaxLen}


-----------------------------------------------------------------------------
(* get_glyphs: the atlas packer *)

\* A row test that also sends a glyph ending exactly at the right edge to
\* a new row.
RowIsFull_AtEdge(pos, width) == pos.x + width >= FONT_ATLAS_SIZE

\* font.rs:205: the test that starts a new atlas row.
RowIsFull(pos, width) == pos.x + width > FONT_ATLAS_SIZE

\* A row advance that sets y to the row's height instead of adding it.
AdvanceRowPosition_Assign(pos, row_height, width) ==
    IF pos.x + width > FONT_ATLAS_SIZE
    THEN [x |-> 0, y |-> row_height]
    ELSE pos

\* A row advance that starts the new row on top of the old one.
AdvanceRowPosition_SameRow(pos, row_height, width) ==
    IF pos.x + width > FONT_ATLAS_SIZE
    THEN [x |-> 0, y |-> pos.y]
    ELSE pos

\* font.rs:205-209: next_glyph_position after "advance atlas row if
\* necessary".
AdvanceRowPosition(pos, row_height, width) ==
    IF RowIsFull(pos, width)
    THEN [x |-> 0, y |-> pos.y + row_height]
    ELSE pos

\* font.rs:205-209: max_height_of_current_row after the same step.
AdvanceRowHeight(pos, row_height, width) ==
    IF RowIsFull(pos, width) THEN 0 ELSE row_height

\* A copy that indexes the image buffer without a bounds check: a pixel
\* past the canvas lands on the canvas again.
RECURSIVE PutPixels_Wrap(_, _, _, _, _)
PutPixels_Wrap(image, pos, metrics, bitmap, k) ==
    IF k >= metrics.width * metrics.height
    THEN [image |-> image, panicked |-> FALSE]
    ELSE LET col == k \div metrics.height
             row == k % metrics.height
             x   == (pos.x + col) % FONT_ATLAS_SIZE
             y   == (pos.y + row) % FONT_ATLAS_SIZE
         IN  PutPixels_Wrap(
                [image EXCEPT ![<<x, y>>] = bitmap[row * metrics.width + col]],
                pos, metrics, bitmap, k + 1)

\* A copy that reads the bitmap buffer column by column, byte
\* col * height + row, where the rasterizer wrote it row by row.
RECURSIVE PutPixels_ColumnMajor(_, _, _, _, _)
PutPixels_ColumnMajor(image, pos, metrics, bitmap, k) ==
    IF k >= metrics.width * metrics.height
    THEN [image |-> image, panicked |-> FALSE]
    ELSE LET col == k \div metrics.height
             row == k % metrics.height
             x   == pos.x + col
             y   == pos.y + row
         IN  IF x >= FONT_ATLAS_SIZE \/ y >= FONT_ATLAS_SIZE
             THEN [image |-> image, panicked |-> TRUE]
             ELSE PutPixels_ColumnMajor(
                    [image EXCEPT ![<<x, y>>] = bitmap[col * metrics.height + row]],
                    pos, metrics, bitmap, k + 1)

\* font.rs:211-225: the copy of the bitmap into the atlas image, column by
\* column, from bitmap byte k on. GrayImage::put_pixel panics on a pixel
\* outside the image; the pixels written before it stay written.
RECURSIVE PutPixels(_, _, _, _, _)
PutPixels(image, pos, metrics, bitmap, k) ==
    IF k >= metrics.width * metrics.height
    THEN [image |-> image, panicked |-> FALSE]
    ELSE LET col == k \div metrics.height
             row == k % metrics.height
             x   == pos.x + col
             y   == pos.y + row
         IN  IF x >= FONT_ATLAS_SIZE \/ y >= FONT_ATLAS_SIZE
             THEN [image |-> image, panicked |-> TRUE]
             ELSE PutPixels(
                    [image EXCEPT ![<<x, y>>] = bitmap[row * metrics.width + col]],
                    pos, metrics, bitmap, k + 1)

\* font.rs:227-232: the region of the glyph in the atlas.
Region(pos, metrics) ==
    [x0 |-> pos.x,
     y0 |-> pos.y,
     x1 |-> pos.x + metrics.width,
     y1 |-> pos.y + metrics.height]

\* A cursor that stays where it is after a glyph.
NextPosition_Stay(pos, metrics) == pos

\* font.rs:234
NextPosition(pos, metrics) == [pos EXCEPT !.x = pos.x + metrics.width]

Max(a, b) == IF a >= b THEN a ELSE b

\* A row height that is the last glyph's height, not the maximum.
NextRowHeight_Last(row_height, metrics) == metrics.height

\* A row height that never grows.
NextRowHeight_Keep(row_height, metrics) == row_height

\* font.rs:236-237
NextRowHeight(row_height, metrics) == Max(row_height, metrics.height)

\* font.rs:240-256: the Glyph record of a rasterized glyph. bounds are
\* floats in the code; the table gives them the values of the integer box.
MakeGlyph(index, metrics, region) ==
    [index  |-> index,
     text   |-> "",
     layout |-> <<metrics.xmin, metrics.ymin,
                  metrics.xmin + metrics.width, metrics.ymin + metrics.height>>,
     bounds |-> <<metrics.xmin, metrics.ymin,
                  metrics.xmin + metrics.width, metrics.ymin + metrics.height>>,
     region |-> region]

\* An insert that stores nothing.
CacheInsert_Forget(cache, index, glyph) == cache

\* An insert that evicts every other entry.
CacheInsert_Evict(cache, index, glyph) == [i \in {index} |-> glyph]

\* font.rs:258: HashMap::insert.
CacheInsert(cache, index, glyph) ==
    [i \in DOMAIN cache \cup {index} |-> IF i = index THEN glyph ELSE cache[i]]

-----------------------------------------------------------------------------
(* get_glyphs: one iteration of the loop over the shaped glyphs *)

\* The fields of self that get_glyphs reads and writes, with the glyphs
\* vector it builds and whether it has panicked.
Self ==
    [size                      |-> size,
     atlas_image               |-> atlas_image,
     need_upload               |-> need_upload,
     next_glyph_position       |-> next_glyph_position,
     max_height_of_current_row |-> max_height_of_current_row,
     glyph_cache               |-> glyph_cache,
     glyphs                    |-> <<>>,
     missed                    |-> FALSE,
     panicked                  |-> FALSE]

\* A hit that marks the atlas as changed.
CacheHit_Dirty(self, index) ==
    [self EXCEPT !.glyphs = Append(@, self.glyph_cache[index]),
                 !.need_upload = TRUE]

\* A hit that continues before pushing the cached glyph.
CacheHit_Skip(self, index) == self

\* A hit that marks the atlas as unchanged.
CacheHit_Clears(self, index) ==
    [self EXCEPT !.glyphs = Append(@, self.glyph_cache[index]),
                 !.need_upload = FALSE]

\* font.rs:179-183: the glyph is in the cache.
CacheHit(self, index) ==
    [self EXCEPT !.glyphs = Append(@, self.glyph_cache[index])]

\* A miss that forgets to set need_upload.
CacheMiss_Clean(self, index) ==
    LET r       == Rasterize(index, self.size)
        metrics == r.metrics
        pos     == AdvanceRowPosition(self.next_glyph_position,
                                      self.max_height_of_current_row,
                                      metrics.width)
        row     == AdvanceRowHeight(self.next_glyph_position,
                                    self.max_height_of_current_row,
                                    metrics.width)
        put     == PutPixels(self.atlas_image, pos, metrics, r.bitmap, 0)
        glyph   == MakeGlyph(index, metrics, Region(pos, metrics))
    IN  IF put.panicked
        THEN [self EXCEPT !.next_glyph_position = pos,
                          !.max_height_of_current_row = row,
                          !.atlas_image = put.image,
                          !.missed = TRUE,
                          !.panicked = TRUE]
        ELSE [self EXCEPT !.next_glyph_position = NextPosition(pos, metrics),
                          !.max_height_of_current_row = NextRowHeight(row, metrics),
                          !.atlas_image = put.image,
                          !.glyph_cache = CacheInsert(@, index, glyph),
                          !.missed = TRUE,
                          !.glyphs = Append(@, glyph)]

\* font.rs:185-261: the glyph is not in the cache.
CacheMiss(self, index) ==
    LET r       == Rasterize(index, self.size)
        metrics == r.metrics
        pos     == AdvanceRowPosition(self.next_glyph_position,
                                      self.max_height_of_current_row,
                                      metrics.width)
        row     == AdvanceRowHeight(self.next_glyph_position,
                                    self.max_height_of_current_row,
                                    metrics.width)
        put     == PutPixels(self.atlas_image, pos, metrics, r.bitmap, 0)
        glyph   == MakeGlyph(index, metrics, Region(pos, metrics))
    IN  IF put.panicked
        THEN [self EXCEPT !.next_glyph_position = pos,
                          !.max_height_of_current_row = row,
                          !.atlas_image = put.image,
                          !.missed = TRUE,
                          !.panicked = TRUE]
        ELSE [self EXCEPT !.next_glyph_position = NextPosition(pos, metrics),
                          !.max_height_of_current_row = NextRowHeight(row, metrics),
                          !.atlas_image = put.image,
                          !.glyph_cache = CacheInsert(@, index, glyph),
                          !.need_upload = TRUE,
                          !.missed = TRUE,
                          !.glyphs = Append(@, glyph)]

\* A loop body that never looks the glyph up in the cache.
ProcessGlyph_NoLookup(self, glyph_id) == CacheMiss(self, AsU16(glyph_id))

\* font.rs:175-262: the body of the loop for one glyph info.
ProcessGlyph(self, glyph_id) ==
    LET index == AsU16(glyph_id)
    IN  IF index \in DOMAIN self.glyph_cache
        THEN CacheHit(self, index)
        ELSE CacheMiss(self, index)

\* A loop that goes through the shaped glyphs from the last to the first.
RECURSIVE GlyphLoop_Reversed(_, _)
GlyphLoop_Reversed(self, infos) ==
    IF infos = <<>> \/ self.panicked
    THEN self
    ELSE GlyphLoop_Reversed(ProcessGlyph(self, infos[Len(infos)]),
                            SubSeq(infos, 1, Len(infos) - 1))

\* font.rs:175-262: the loop; a panic ends it.
RECURSIVE GlyphLoop(_, _)
GlyphLoop(self, infos) ==
    IF infos = <<>> \/ self.panicked
    THEN self
    ELSE GlyphLoop(ProcessGlyph(self, Head(infos)), Tail(infos))

-----------------------------------------------------------------------------
(* The operations *)

\* font.rs:58-109: DynamicFont::load. Texture::from_image copies the blank
\* image to the new texture.
Init ==
    /\ font \in [GlyphIndices -> Metrics]
    /\ size = 24
    /\ atlas_image = BlankImage
    /\ atlas_texture = BlankImage
    /\ need_upload = FALSE
    /\ next_glyph_position = [x |-> 0, y |-> 0]
    /\ max_height_of_current_row = 0
    /\ glyph_cache = << >>
    /\ panicked = FALSE
    /\ op = "load"
    /\ glyph_infos = << >>
    /\ glyphs = << >>
    /\ gpu_writes = 0
    /\ missed = FALSE

\* font.rs:150-267: DynamicFont::get_glyphs(text), text shaping to infos.
GetGlyphs(infos) ==
    /\ ~panicked
    /\ \E self \in {GlyphLoop(Self, infos)} :
           /\ atlas_image' = self.atlas_image
           /\ need_upload' = self.need_upload
           /\ next_glyph_position' = self.next_glyph_position
           /\ max_height_of_current_row' = self.max_height_of_current_row
           /\ glyph_cache' = self.glyph_cache
           /\ panicked' = self.panicked
           /\ glyphs' = IF self.panicked THEN << >> ELSE self.glyphs
           /\ missed' = (missed \/ self.missed)
    /\ op' = "get_glyphs"
    /\ glyph_infos' = infos
    /\ gpu_writes' = 0
    /\ UNCHANGED <<font, size, atlas_texture>>

-----------------------------------------------------------------------------
(* upload: the transfer of the atlas image to the GPU texture *)

\* Bytes per texel of the atlas texture. Texture::from_image creates the
\* texture; the format is the single 8-bit channel the design documents.
TexelBytes == 1

\* The bytes of a GrayImage: row after row, one byte per pixel.
RawBytes(image) ==
    [i \in 0 .. (FONT_ATLAS_SIZE * FONT_ATLAS_SIZE - 1) |->
        image[<<i % FONT_ATLAS_SIZE, i \div FONT_ATLAS_SIZE>>]]

\* wgpu::Queue::write_texture at origin zero, mip level 0 and data offset 0:
\* the texels of the extent are read from data, bytes_per_row bytes per row.
WriteTexture(texture, data, bytes_per_row, width, height) ==
    [p \in Pixels |->
        IF p[1] < width /\ p[2] < height
        THEN data[p[2] * bytes_per_row + p[1] * TexelBytes]
        ELSE texture[p]]

\* A transfer that leaves the last row of the atlas out.
UploadTexture_ShortExtent(texture, image) ==
    WriteTexture(texture, RawBytes(image), FONT_ATLAS_SIZE,
                 FONT_ATLAS_SIZE, FONT_ATLAS_SIZE - 1)

\* font.rs:119-146: the write_texture call of upload.
UploadTexture(texture, image) ==
    WriteTexture(texture, RawBytes(image), FONT_ATLAS_SIZE,
                 FONT_ATLAS_SIZE, FONT_ATLAS_SIZE)

\* An upload that writes the texture whatever the flag says.
Upload_Always ==
    /\ ~panicked
    /\ need_upload' = FALSE
    /\ atlas_texture' = atlas_image
    /\ gpu_writes' = 1
    /\ op' = "upload"
    /\ glyph_infos' = << >>
    /\ glyphs' = << >>
    /\ missed' = FALSE
    /\ UNCHANGED <<font, size, atlas_image, next_glyph_position,
                   max_height_of_current_row, glyph_cache, panicked>>

\* An upload that also halves the pixel size of the font.
Upload_Resizes ==
    /\ ~panicked
    /\ IF need_upload
       THEN /\ need_upload' = FALSE
            /\ atlas_texture' = atlas_image
            /\ gpu_writes' = 1
       ELSE /\ UNCHANGED <<need_upload, atlas_texture>>
            /\ gpu_writes' = 0
    /\ size' = size \div 2
    /\ op' = "upload"
    /\ glyph_infos' = << >>
    /\ glyphs' = << >>
    /\ missed' = FALSE
    /\ UNCHANGED <<font, atlas_image, next_glyph_position,
                   max_height_of_current_row, glyph_cache, panicked>>

\* An upload that also sends the packer back to the origin of the atlas.
Upload_ResetsPacker ==
    /\ ~panicked
    /\ IF need_upload
       THEN /\ need_upload' = FALSE
            /\ atlas_texture' = atlas_image
            /\ gpu_writes' = 1
       ELSE /\ UNCHANGED <<need_upload, atlas_texture>>
            /\ gpu_writes' = 0
    /\ next_glyph_position' = [x |-> 0, y |-> 0]
    /\ max_height_of_current_row' = 0
    /\ op' = "upload"
    /\ glyph_infos' = << >>
    /\ glyphs' = << >>
    /\ missed' = FALSE
    /\ UNCHANGED <<font, size, atlas_image, glyph_cache, panicked>>

\* An upload that leaves the flag set.
Upload_KeepsFlag ==
    /\ ~panicked
    /\ IF need_upload
       THEN /\ atlas_texture' = atlas_image
            /\ gpu_writes' = 1
       ELSE /\ UNCHANGED atlas_texture
            /\ gpu_writes' = 0
    /\ op' = "upload"
    /\ glyph_infos' = << >>
    /\ glyphs' = << >>
    /\ missed' = FALSE
    /\ UNCHANGED <<font, size, atlas_image, need_upload, next_glyph_position,
                   max_height_of_current_row, glyph_cache, panicked>>

\* font.rs:112-148: DynamicFont::upload.
Upload ==
    /\ ~panicked
    /\ IF need_upload
       THEN /\ need_upload' = FALSE
            /\ atlas_texture' = UploadTexture(atlas_texture, atlas_image)
            /\ gpu_writes' = 1
       ELSE /\ UNCHANGED <<need_upload, atlas_texture>>
            /\ gpu_writes' = 0
    /\ op' = "upload"
    /\ glyph_infos' = << >>
    /\ glyphs' = << >>
    /\ missed' = FALSE
    /\ UNCHANGED <<font, size, atlas_image, next_glyph_position,
                   max_height_of_current_row, glyph_cache, panicked>>

Next ==
    \/ \E infos \in ShapedTexts : GetGlyphs(infos)
    \/ Upload

Spec == Init /\ [][Next]_vars

-----------------------------------------------------------------------------
(* The per-frame protocol of the caller *)

\* A draw call of the frame samples the atlas texture. The caller issues it
\* after the frame's upload, with no get_glyphs in between.
Draw ==
    /\ ~panicked
    /\ op \in {"upload", "draw"}
    /\ op' = "draw"
    /\ glyph_infos' = << >>
    /\ glyphs' = << >>
    /\ gpu_writes' = 0
    /\ UNCHANGED <<font, size, atlas_image, atlas_texture, need_upload,
                   next_glyph_position, max_height_of_current_row,
                   glyph_cache, panicked, missed>>

FrameNext ==
    \/ \E infos \in ShapedTexts : GetGlyphs(infos)
    \/ Upload
    \/ Draw

FrameSpec == Init /\ [][FrameNext]_vars

-----------------------------------------------------------------------------
(* Calls of one glyph *)

\* The program calling get_glyphs with texts of one glyph only: the states
\* from which the claims about sequences of calls start their calls.
GlyphByGlyphNext ==
    \/ \E id \in GlyphIds : GetGlyphs(<<id>>)
    \/ Upload

GlyphByGlyphSpec == Init /\ [][GlyphByGlyphNext]_vars

-----------------------------------------------------------------------------
(* Properties *)

Min(a, b) == IF a <= b THEN a ELSE b

\* Two regions share an atlas pixel.
Overlap(a, b) ==
    /\ Max(a.x0, b.x0) < Min(a.x1, b.x1)
    /\ Max(a.y0, b.y0) < Min(a.y1, b.y1)

Area(r) == (r.x1 - r.x0) * (r.y1 - r.y0)

Cached == DOMAIN glyph_cache

\* C1: when get_glyphs(T) has returned, a second get_glyphs(T) right after
\* it returns the same glyphs and leaves the packer cursor, the row height,
\* the cache, the atlas image and need_upload as the first call left them.
C1_SecondCallIsIdempotent ==
    (op = "get_glyphs" /\ ~panicked) =>
        \A second \in {GlyphLoop(Self, glyph_infos)} :
            /\ ~second.panicked
            /\ second.glyphs = glyphs
            /\ second.next_glyph_position = next_glyph_position
            /\ second.max_height_of_current_row = max_height_of_current_row
            /\ second.glyph_cache = glyph_cache
            /\ second.atlas_image = atlas_image
            /\ second.need_upload = need_upload

\* The first call placed two glyphs the cache had not seen.
C1_Witness ==
    /\ op = "get_glyphs"
    /\ ~panicked
    /\ Len(glyphs) = 2
    /\ glyphs[1].index # glyphs[2].index
    /\ Area(glyphs[1].region) > 0
    /\ Area(glyphs[2].region) > 0
    /\ atlas_texture = BlankImage

\* C2: the regions of two distinct cached glyphs share no atlas pixel.
C2_RegionsDoNotOverlap ==
    \A i, j \in Cached :
        i # j => ~Overlap(glyph_cache[i].region, glyph_cache[j].region)

\* Three glyphs with pixels are in the atlas, in more than one row.
C2_Witness ==
    /\ Cardinality(Cached) = 3
    /\ \A i \in Cached : Area(glyph_cache[i].region) > 0
    /\ \E i \in Cached : glyph_cache[i].region.y0 > 0

\* C3: the region of every cached glyph lies within the canvas.
C3_RegionsInsideCanvas ==
    \A i \in Cached :
        /\ glyph_cache[i].region.x1 <= FONT_ATLAS_SIZE
        /\ glyph_cache[i].region.y1 <= FONT_ATLAS_SIZE

\* C4: no step makes next_glyph_position.y smaller.
C4_CursorYNeverDecreases ==
    [][next_glyph_position'.y >= next_glyph_position.y]_vars

\* The packer is in its third row.
C4_Witness ==
    /\ next_glyph_position.y > 1
    /\ Cardinality(Cached) = 3
    /\ \A i, j \in Cached :
          i # j => glyph_cache[i].region.y0 # glyph_cache[j].region.y0

\* C5: an upload with need_upload false queues no texture write and
\* changes nothing, so the second of two uploads in a row writes nothing.
C5_CleanUploadIsNoOp ==
    [][(op' = "upload" /\ (~need_upload \/ op = "upload")) =>
          /\ gpu_writes' = 0
          /\ UNCHANGED <<need_upload, glyph_cache, next_glyph_position,
                         max_height_of_current_row, atlas_image,
                         atlas_texture>>]_vars

\* An upload found the flag clear although glyphs are cached.
C5_Witness ==
    /\ op = "upload"
    /\ gpu_writes = 0
    /\ Cached # {}

\* C6: a call queues one texture write when it is an upload with a cache
\* miss since the upload before it (or since load), and none otherwise.
C6_OneWritePerDirtyUpload ==
    [][gpu_writes' = IF op' = "upload" /\ missed THEN 1 ELSE 0]_vars

\* An upload has written a texture that holds a glyph's pixels.
C6_Witness ==
    /\ op = "upload"
    /\ gpu_writes = 1
    /\ atlas_texture # BlankImage

\* C7: need_upload is false when upload has returned.
C7_CleanAfterUpload == op = "upload" => ~need_upload

\* An upload that found the flag set has returned.
C7_Witness ==
    /\ op = "upload"
    /\ gpu_writes = 1
    /\ ~need_upload

\* C8: the loop body for a glyph that is in the cache appends the cached
\* Glyph and changes nothing else of self, whatever it has pushed so far.
C8_CacheHitTouchesNothing ==
    \A id \in GlyphIds :
        AsU16(id) \in Cached =>
            \A pushed \in {<< >>, glyphs} :
                ProcessGlyph([Self EXCEPT !.glyphs = pushed], id)
                    = [Self EXCEPT !.glyphs =
                                      Append(pushed, glyph_cache[AsU16(id)])]

\* A get_glyphs call of two shaped glyphs, both hits, has returned: the
\* atlas is as the last upload left it.
C8_Witness ==
    /\ op = "get_glyphs"
    /\ Len(glyphs) = 2
    /\ ~need_upload
    /\ ~missed
    /\ atlas_texture = atlas_image
    /\ atlas_image # BlankImage

\* C9: no step removes a cache entry or changes its Glyph record.
C9_CacheEntriesAreStable ==
    [][\A i \in Cached :
          /\ i \in DOMAIN glyph_cache'
          /\ glyph_cache'[i] = glyph_cache[i]]_vars

\* The cache holds more glyphs than one call can insert: an entry has
\* outlived a later call that inserted another.
C9_Witness ==
    /\ Cardinality(Cached) > MaxLen
    /\ op = "get_glyphs"
    /\ missed

\* C10: the glyphs returned are one per shaped glyph id, in order, each
\* with the index of its id.
C10_OneGlyphPerShapedId ==
    (op = "get_glyphs" /\ ~panicked) =>
        /\ Len(glyphs) = Len(glyph_infos)
        /\ \A i \in 1 .. Len(glyph_infos) : glyphs[i].index = glyph_infos[i]

\* A call returned a hit followed by a miss.
C10_Witness ==
    /\ op = "get_glyphs"
    /\ Len(glyphs) = 2
    /\ glyphs[1].index # glyphs[2].index
    /\ atlas_texture # BlankImage
    /\ need_upload
    /\ \A p \in Pixels :
          /\ p[1] >= glyphs[1].region.x0 /\ p[1] < glyphs[1].region.x1
          /\ p[2] >= glyphs[1].region.y0 /\ p[2] < glyphs[1].region.y1
          => atlas_texture[p] # 0
    /\ Area(glyphs[1].region) > 0
    /\ \E p \in Pixels :
          /\ p[1] >= glyphs[2].region.x0 /\ p[1] < glyphs[2].region.x1
          /\ p[2] >= glyphs[2].region.y0 /\ p[2] < glyphs[2].region.y1
          /\ atlas_texture[p] = 0

\* C11: an upload that finds need_upload set queues one transfer, and when
\* it returns the texture equals the atlas image at every pixel.
C11_DirtyUploadCopiesWholeAtlas ==
    [][(op' = "upload" /\ need_upload) =>
          /\ gpu_writes' = 1
          /\ \A p \in Pixels : atlas_texture'[p] = atlas_image'[p]]_vars

\* An upload has copied an atlas in which every pixel of the canvas holds
\* coverage, of more than one glyph.
C11_Witness ==
    /\ op = "upload"
    /\ gpu_writes = 1
    /\ \A p \in Pixels : atlas_texture[p] # 0
    /\ Cardinality(Cached) >= 2
    /\ \A i \in Cached : Area(glyph_cache[i].region) > 0

\* The pixels of image inside the region of glyph g are the bytes of the
\* bitmap of g, byte row * width + col at (x0 + col, y0 + row).
HoldsBitmap(image, g) ==
    LET width  == g.region.x1 - g.region.x0
        height == g.region.y1 - g.region.y0
    IN  \A col \in 0 .. width - 1 : \A row \in 0 .. height - 1 :
            image[<<g.region.x0 + col, g.region.y0 + row>>]
                = Coverage(g.index, row * width + col)

\* C12: under the per-frame protocol, at every draw the texture holds, at
\* the region of every glyph handed out so far, the bitmap of that glyph.
C12_DrawSamplesEveryGlyph ==
    op = "draw" => \A i \in Cached : HoldsBitmap(atlas_texture, glyph_cache[i])

\* A draw samples an atlas of three glyphs, two of them with pixels.
C12_Witness ==
    /\ op = "draw"
    /\ Cardinality(Cached) = 3
    /\ Cardinality({i \in Cached : Area(glyph_cache[i].region) > 0}) >= 2

\* The first call on a freshly loaded font is of two distinct glyphs whose
\* bitmaps fit side by side in one row.
FirstCallOfTwo ==
    /\ op = "load"
    /\ op' = "get_glyphs"
    /\ Len(glyph_infos') = 2
    /\ glyph_infos'[1] # glyph_infos'[2]
    /\ font[glyph_infos'[1]].width + font[glyph_infos'[2]].width <= FONT_ATLAS_SIZE

\* The two glyphs are side by side from (0,0), the only cache entries, and
\* need_upload is set.
PlacedSideBySide ==
    LET m1 == font[glyph_infos'[1]]
        m2 == font[glyph_infos'[2]]
    IN  /\ ~panicked'
        /\ Len(glyphs') = 2
        /\ glyphs'[1].region = [x0 |-> 0, y0 |-> 0, x1 |-> m1.width, y1 |-> m1.height]
        /\ glyphs'[2].region = [x0 |-> m1.width, y0 |-> 0,
                                x1 |-> m1.width + m2.width, y1 |-> m2.height]
        /\ Cardinality(DOMAIN glyph_cache') = 2
        /\ need_upload'

\* A bitmap with pixels is not taller than the canvas.
FitsCanvasHeight(m) == m.width = 0 \/ m.height <= FONT_ATLAS_SIZE

\* C13, as claimed: on a fresh font, two distinct glyphs with
\* w1 + w2 <= FONT_ATLAS_SIZE go to (0,0,w1,h1) and (w1,0,w1+w2,h2), the
\* cache has 2 entries and need_upload is set.
C13_AsClaimed == [][FirstCallOfTwo => PlacedSideBySide]_vars

\* C13, amended: the same, when neither bitmap with pixels is taller than
\* the canvas.
C13_FirstTwoGlyphsSideBySide ==
    [][(/\ FirstCallOfTwo
        /\ FitsCanvasHeight(font[glyph_infos'[1]])
        /\ FitsCanvasHeight(font[glyph_infos'[2]])) => PlacedSideBySide]_vars

\* Two one-pixel glyphs fill the first row of an atlas not yet uploaded.
C13_Witness ==
    /\ op = "get_glyphs"
    /\ Len(glyphs) = 2
    /\ glyphs[1].region = [x0 |-> 0, y0 |-> 0, x1 |-> 1, y1 |-> 1]
    /\ glyphs[2].region = [x0 |-> 1, y0 |-> 0, x1 |-> 2, y1 |-> 1]
    /\ Cardinality(Cached) = 2
    /\ need_upload
    /\ atlas_texture = BlankImage
    /\ max_height_of_current_row = 1

\* C14: when the loop has gone through a shaped sequence T and the next
\* glyph id is one T holds at place k, the loop body pushes for it the
\* Glyph it pushed at place k and changes nothing else: no allocation, no
\* image write, no new cache entry. The state of the loop after T is the
\* state the call of T leaves, with the glyphs it returns. With
\* T = <<A, B>> and k = 1 this is the third glyph of <<A, B, A>>.
C14_RepeatedIdPlacedOnce ==
    (op = "get_glyphs" /\ ~panicked) =>
        \A once \in {[Self EXCEPT !.glyphs = glyphs]} :
            \A k \in 1 .. Len(glyph_infos) :
                ProcessGlyph(once, glyph_infos[k])
                    = [once EXCEPT !.glyphs = Append(@, once.glyphs[k])]

\* A call of the same glyph id twice has returned the same Glyph twice, the
\* only glyph of the atlas.
C14_Witness ==
    /\ op = "get_glyphs"
    /\ Len(glyph_infos) = 2
    /\ glyph_infos[1] = glyph_infos[2]
    /\ glyphs[1] = glyphs[2]
    /\ Cached = {AsU16(glyph_infos[1])}
    /\ Area(glyphs[1].region) > 0
    /\ need_upload
    /\ atlas_texture = BlankImage

\* Pixel p lies in region r.
InRegion(p, r) ==
    /\ r.x0 <= p[1] /\ p[1] < r.x1
    /\ r.y0 <= p[2] /\ p[2] < r.y1

\* Where the packer puts a glyph of this width.
PlaceFor(width) ==
    AdvanceRowPosition(next_glyph_position, max_height_of_current_row, width)

\* The bitmap of the glyph, placed where the packer puts it, has a pixel
\* past the last column or the last row of the canvas.
DoesNotFit(index) ==
    LET m == font[index]
    IN  /\ m.width > 0
        /\ m.height > 0
        /\ \/ PlaceFor(m.width).x + m.width > FONT_ATLAS_SIZE
           \/ PlaceFor(m.width).y + m.height > FONT_ATLAS_SIZE

C16_EmptyGlyphLeavesPacker ==
    ~panicked =>
        \A id \in GlyphIds :
            (/\ AsU16(id) \notin Cached
             /\ font[AsU16(id)].width = 0
             /\ font[AsU16(id)].height = 0) =>
                \A next \in {ProcessGlyph(Self, id)} :
                    /\ ~next.panicked
                    /\ next.glyphs[1].region.x0 = next.glyphs[1].region.x1
                    /\ next.glyphs[1].region.y0 = next.glyphs[1].region.y1
                    /\ next.atlas_image = atlas_image
                    /\ next.next_glyph_position = next_glyph_position
                    /\ next.max_height_of_current_row = max_height_of_current_row

\* The shelf algorithm for a bitmap of width w and height h, from cursor
\* pos and row height rh: the cursor after the row test, the rectangle
\* returned, and the cursor and row height left behind.
Shelf(pos, rh, w, h) ==
    LET wrap == pos.x + w > FONT_ATLAS_SIZE
        cx   == IF wrap THEN 0 ELSE pos.x
        cy   == IF wrap THEN pos.y + rh ELSE pos.y
        r    == IF wrap THEN 0 ELSE rh
    IN  [region     |-> [x0 |-> cx, y0 |-> cy, x1 |-> cx + w, y1 |-> cy + h],
         cursor     |-> [x |-> cx + w, y |-> cy],
         row_height |-> IF r >= h THEN r ELSE h]

\* C17: the loop body for an uncached glyph that is placed gives the glyph
\* the rectangle of the shelf algorithm and leaves the cursor and the row
\* height of the shelf algorithm: a new row only when cursor.x + width is
\* strictly greater than the canvas width.
C17_PlacementFollowsShelf ==
    ~panicked =>
        \A id \in GlyphIds :
            AsU16(id) \notin Cached =>
                \A next \in {ProcessGlyph(Self, id)} :
                    ~next.panicked =>
                        \A shelf \in {Shelf(next_glyph_position,
                                            max_height_of_current_row,
                                            font[AsU16(id)].width,
                                            font[AsU16(id)].height)} :
                            /\ next.glyphs[1].region = shelf.region
                            /\ next.next_glyph_position = shelf.cursor
                            /\ next.max_height_of_current_row = shelf.row_height

\* A call has placed a glyph as wide as the canvas in the first row, where
\* it ends exactly at the right edge, and a one-pixel glyph at the start of
\* the row below it.
C17_Witness ==
    /\ op = "get_glyphs"
    /\ ~panicked
    /\ Len(glyphs) = 2
    /\ glyphs[1].region = [x0 |-> 0, y0 |-> 0, x1 |-> FONT_ATLAS_SIZE, y1 |-> 1]
    /\ glyphs[2].region = [x0 |-> 0, y0 |-> 1, x1 |-> 1, y1 |-> 2]
    /\ next_glyph_position = [x |-> 1, y |-> 1]
    /\ max_height_of_current_row = 1

\* C18: after the loop body has placed an uncached glyph, the atlas image
\* holds byte row * width + col of the rasterized bitmap at pixel
\* (region.x0 + col, region.y0 + row), for every row and column of the
\* bitmap.
C18_MissCopiesBitmapRowMajor ==
    ~panicked =>
        \A id \in GlyphIds :
            AsU16(id) \notin Cached =>
                \A next \in {ProcessGlyph(Self, id)} :
                    ~next.panicked =>
                        \A r \in {Rasterize(AsU16(id), size)} :
                            \A row \in 0 .. r.metrics.height - 1 :
                                \A col \in 0 .. r.metrics.width - 1 :
                                    next.atlas_image[
                                        <<next.glyphs[1].region.x0 + col,
                                          next.glyphs[1].region.y0 + row>>]
                                      = r.bitmap[row * r.metrics.width + col]

\* A call has placed a glyph with more than one row and more than one
\* column, and its bytes are in the image in the order of the bitmap.
C18_Witness ==
    /\ op = "get_glyphs"
    /\ ~panicked
    /\ Len(glyphs) = 1
    /\ glyphs[1].region.x1 - glyphs[1].region.x0 >= 2
    /\ glyphs[1].region.y1 - glyphs[1].region.y0 >= 2
    /\ atlas_image[<<1, 0>>] = Coverage(glyphs[1].index, 1)
    /\ atlas_image[<<0, 1>>] = Coverage(glyphs[1].index, FONT_ATLAS_SIZE)
    /\ atlas_image[<<1, 0>>] # atlas_image[<<0, 1>>]

\* C19: a get_glyphs call that returns leaves need_upload true exactly
\* when it was true before the call or a glyph id of the shaped sequence
\* was not in the cache at the start of the call.
C19_DirtyIsBeforeOrMissed ==
    [][(op' = "get_glyphs" /\ ~panicked') =>
          (need_upload' <=>
              \/ need_upload
              \/ \E k \in 1 .. Len(glyph_infos') :
                    AsU16(glyph_infos'[k]) \notin DOMAIN glyph_cache)]_vars

\* A call of one glyph has returned the glyph at the origin of the atlas.
\* A second cached glyph lies to its right, so the glyph returned was
\* placed by an earlier call and this call was a hit; no upload has taken
\* place since and need_upload is still set.
C19_Witness ==
    /\ op = "get_glyphs"
    /\ ~panicked
    /\ need_upload
    /\ Len(glyphs) = 1
    /\ glyphs[1].region = [x0 |-> 0, y0 |-> 0, x1 |-> 1, y1 |-> 1]
    /\ Cardinality(Cached) = 2
    /\ \E i \in Cached : glyph_cache[i].region.x0 = 1 /\ Area(glyph_cache[i].region) > 0
    /\ atlas_texture = BlankImage

\* Every pixel written to the atlas image lies in the region of a cached
\* glyph.
PixelsBelongToCache ==
    \A p \in Pixels :
        atlas_image[p] # 0 => \E i \in Cached : InRegion(p, glyph_cache[i].region)

\* The cursor is where load left it or at the end of a cached glyph, in
\* the row of that glyph.
CursorBelongsToCache ==
    \/ next_glyph_position = [x |-> 0, y |-> 0] /\ max_height_of_current_row = 0
    \/ \E i \in Cached :
          /\ glyph_cache[i].region.x1 = next_glyph_position.x
          /\ glyph_cache[i].region.y0 = next_glyph_position.y

\* C20: at the end of every get_glyphs call, returned or panicked, every
\* pixel written and the cursor belong to a cached glyph, and need_upload
\* is set if the image differs from what was last uploaded.
C20_NoPartialFailureWindow ==
    op = "get_glyphs" =>
        /\ PixelsBelongToCache
        /\ CursorBelongsToCache
        /\ atlas_image # atlas_texture => need_upload

\* The Glyph of index i has the layout, the bounds and the region width
\* and height that rasterize_indexed yields for i at pixel size px.
AsRasterized(g, i, px) ==
    \A m \in {Rasterize(i, px).metrics} :
        /\ g.index = i
        /\ g.layout = <<m.xmin, m.ymin, m.xmin + m.width, m.ymin + m.height>>
        /\ g.bounds = <<m.xmin, m.ymin, m.xmin + m.width, m.ymin + m.height>>
        /\ g.region.x1 - g.region.x0 = m.width
        /\ g.region.y1 - g.region.y0 = m.height

\* C21: size is the 24 of load in every reachable state, every cached
\* Glyph is as rasterized at the current size, and the loop body for a
\* cached glyph pushes a Glyph that is as rasterized at the current size.
C21_CacheMatchesCurrentSize ==
    /\ size = 24
    /\ \A i \in Cached : AsRasterized(glyph_cache[i], i, size)
    /\ ~panicked =>
          \A id \in GlyphIds :
              AsU16(id) \in Cached =>
                  AsRasterized(ProcessGlyph(Self, id).glyphs[1], AsU16(id), size)

\* After an upload the cache holds three glyphs, two of them with pixels,
\* and a call has returned two of them from the cache.
C21_Witness ==
    /\ op = "get_glyphs"
    /\ ~need_upload
    /\ Cardinality(Cached) = 3
    /\ Len(glyphs) = 2
    /\ glyphs[1] # glyphs[2]
    /\ Area(glyphs[1].region) > 0
    /\ Area(glyphs[2].region) > 0
    /\ atlas_texture = atlas_image

\* C22: get_glyphs and upload are the atomic steps of the specification
\* and a step may be any caller's, so a behaviour is a serialized run of
\* any number of callers. No step moves or drops the region of a glyph id
\* once allocated, and every call hands out, for each shaped id, the Glyph
\* that the cache holds for it: the one handed out at the first request.
C22_SerializedCallersAgree ==
    [][/\ \A i \in Cached :
             /\ i \in DOMAIN glyph_cache'
             /\ glyph_cache'[i].region = glyph_cache[i].region
       /\ (op' = "get_glyphs" /\ ~panicked') =>
             \A k \in 1 .. Len(glyphs') :
                 \A i \in {AsU16(glyph_infos'[k])} :
                     /\ glyphs'[k] = glyph_cache'[i]
                     /\ i \in Cached => glyphs'[k] = glyph_cache[i]]_vars

\* A call has returned, after the glyph of its first id, the glyph at the
\* origin of the atlas, which an earlier call placed; a third glyph is in
\* the cache from another call.
C22_Witness ==
    /\ op = "get_glyphs"
    /\ ~panicked
    /\ Len(glyphs) = 2
    /\ glyphs[2].region = [x0 |-> 0, y0 |-> 0, x1 |-> 1, y1 |-> 1]
    /\ glyphs[1].region.x0 = 1
    /\ Area(glyphs[1].region) > 0
    /\ Cardinality(Cached) = 3

\* C23: in every reachable state, if need_upload is false then the GPU
\* texture equals the atlas image at every pixel.
C23_CleanMeansTextureIsImage ==
    ~need_upload => \A p \in Pixels : atlas_texture[p] = atlas_image[p]

\* C24: in every reachable state the atlas image holds, inside the region
\* of every cached glyph, the bitmap of that glyph.
C24_CachedBitmapsStayWritten ==
    \A i \in Cached : HoldsBitmap(atlas_image, glyph_cache[i])

\* Three glyphs with pixels are cached; the last call placed one glyph,
\* in the second row, below glyphs placed by earlier calls.
C24_Witness ==
    /\ op = "get_glyphs"
    /\ ~panicked
    /\ Len(glyphs) = 1
    /\ glyphs[1].region.y0 > 0
    /\ Cardinality({i \in Cached : Area(glyph_cache[i].region) > 0}) = 3
    /\ \A i \in Cached : glyph_cache[i].region.y0 <= glyphs[1].region.y0

\* C25: in every reachable state every atlas image pixel outside the
\* regions of all cached glyphs has the value 0 it had at load.
C25_OutsideRegionsIsBlank ==
    \A p \in Pixels :
        (\A i \in Cached : ~InRegion(p, glyph_cache[i].region)) =>
            atlas_image[p] = BlankImage[p]

\* The region is below no part of the current row: it ends at or above the
\* bottom of the row.
EndsInOrAboveRow(r) ==
    r.y1 <= next_glyph_position.y + max_height_of_current_row

\* A region that starts above the current row ends at or above its top.
EndsAboveRow(r) ==
    r.y0 < next_glyph_position.y => r.y1 <= next_glyph_position.y

\* A region that starts on the top of the current row ends at or left of
\* the cursor.
EndsLeftOfCursor(r) ==
    r.y0 = next_glyph_position.y => r.x1 <= next_glyph_position.x

\* C26, as claimed: in every reachable state every cached region ends at or
\* above the bottom of the current row, ends at or above its top if it
\* starts above it, and ends at or left of the cursor if it starts on it.
C26_AsClaimed ==
    \A i \in Cached :
        /\ EndsInOrAboveRow(glyph_cache[i].region)
        /\ EndsAboveRow(glyph_cache[i].region)
        /\ EndsLeftOfCursor(glyph_cache[i].region)

\* C26, amended: the same, the third condition for the cached regions that
\* have rows (y1 > y0). A row of bitmaps without rows has height 0, and the
\* row after it starts on the same y, left of them.
C26_PackerAndCacheAgree ==
    \A i \in Cached :
        /\ EndsInOrAboveRow(glyph_cache[i].region)
        /\ EndsAboveRow(glyph_cache[i].region)
        /\ glyph_cache[i].region.y1 > glyph_cache[i].region.y0 =>
              EndsLeftOfCursor(glyph_cache[i].region)

\* The cursor is in the second row behind a one-pixel glyph, below a first
\* row of glyphs with pixels.
C26_Witness ==
    /\ ~panicked
    /\ next_glyph_position = [x |-> 1, y |-> 1]
    /\ max_height_of_current_row = 1
    /\ \E i \in Cached :
          glyph_cache[i].region = [x0 |-> 0, y0 |-> 1, x1 |-> 1, y1 |-> 2]
    /\ \E i \in Cached :
          /\ glyph_cache[i].region.y0 = 0
          /\ glyph_cache[i].region.y1 = 1
          /\ glyph_cache[i].region.x1 = FONT_ATLAS_SIZE

\* C27: in every reachable state next_glyph_position.x is at most the
\* width of the canvas.
C27_CursorXInsideCanvas == next_glyph_position.x <= FONT_ATLAS_SIZE

\* What the next call starts from, when a call has left self: the same
\* fields, and a new empty glyphs vector.
NextCall(self) == [self EXCEPT !.glyphs = << >>, !.missed = FALSE]

\* C28: for every shaped sequence T and every split of T into S1 and S2,
\* a call of S1 and then a call of S2, both returning, return glyphs whose
\* concatenation is what one call of T returns, and leave the cache, the
\* cursor, the row height, the atlas image and need_upload that one call
\* of T leaves.
C28_TwoCallsAreOneCall ==
    ~panicked =>
        \A T \in ShapedTexts : \A one \in {GlyphLoop(Self, T)} :
            \A k \in 1 .. Len(T) - 1 :
                \A first \in {GlyphLoop(Self, SubSeq(T, 1, k))} :
                    ~first.panicked =>
                        \A second \in {GlyphLoop(NextCall(first),
                                                  SubSeq(T, k + 1, Len(T)))} :
                            ~second.panicked =>
                                /\ ~one.panicked
                                /\ one.glyphs = first.glyphs \o second.glyphs
                                /\ one.glyph_cache = second.glyph_cache
                                /\ one.next_glyph_position = second.next_glyph_position
                                /\ one.max_height_of_current_row
                                      = second.max_height_of_current_row
                                /\ one.atlas_image = second.atlas_image
                                /\ one.need_upload = second.need_upload

\* Two calls of one glyph each have placed a glyph as tall as the canvas
\* and then a one-pixel glyph beside it, the only glyphs of an atlas not
\* yet uploaded.
C28_Witness ==
    /\ op = "get_glyphs"
    /\ ~panicked
    /\ Len(glyphs) = 1
    /\ glyphs[1].region = [x0 |-> 1, y0 |-> 0, x1 |-> 2, y1 |-> 1]
    /\ Cardinality(Cached) = 2
    /\ \E i \in Cached :
          glyph_cache[i].region
              = [x0 |-> 0, y0 |-> 0, x1 |-> 1, y1 |-> FONT_ATLAS_SIZE]
    /\ max_height_of_current_row = FONT_ATLAS_SIZE
    /\ need_upload
    /\ atlas_texture = BlankImage

\* C29: an upload step, with need_upload set or not, leaves the glyph
\* cache, the cursor, the row height, the atlas image and the font size as
\* they were.
C29_UploadTouchesTextureAndFlagOnly ==
    [][op' = "upload" =>
          /\ glyph_cache' = glyph_cache
          /\ next_glyph_position' = next_glyph_position
          /\ max_height_of_current_row' = max_height_of_current_row
          /\ atlas_image' = atlas_image
          /\ size' = size]_vars

\* An upload has written an atlas of three glyphs whose cursor is in the
\* second row.
C29_Witness ==
    /\ op = "upload"
    /\ gpu_writes = 1
    /\ ~need_upload
    /\ Cardinality(Cached) = 3
    /\ next_glyph_position.y > 0
    /\ next_glyph_position.x > 0
    /\ max_height_of_current_row > 0
    /\ atlas_texture = atlas_image
    /\ atlas_image # BlankImage

=============================================================================
